---- MODULE Spec2Model ----
(***************************************************************************)
(* A model of linear.c: the thread pool of src/thread.c, the chunked       *)
(* multi-threaded vector addition of tests/test_linear_thread.c, the       *)
(* vector API of src/vector.c, the scalar API of src/scalar.c and the      *)
(* matrix API of src/matrix.c.                                             *)
(*                                                                         *)
(* Each part has its own specifications; the variables of the other parts  *)
(* keep their initial values.                                              *)
(***************************************************************************)
EXTENDS Integers, Sequences, FiniteSets, TLC

(***************************************************************************)
(* Bounds of the model.                                                    *)
(***************************************************************************)
\* num_threads handed to thread_pool_create
NumThreads == 2
\* threads of the program that call thread_pool_submit / thread_pool_wait
NumClients == 2
\* tasks submitted in one run
MaxTasks == 3

(***************************************************************************)
(* Part 1: the thread pool (src/thread.c).                                 *)
(***************************************************************************)
VARIABLES task_queue, task_count, head, tail, stop, queue_mutex,
          task_available, task_done, wpc, wtask, cpc, ctask,
          next_task, submitted, performed, wait_snapshot, free_called

pool_vars == <<task_queue, task_count, head, tail, stop, queue_mutex,
               task_available, task_done, wpc, wtask, cpc, ctask,
               next_task, submitted, performed, wait_snapshot, free_called>>

\* the state of one call of vector_vector_add_mt (part 2)
VARIABLES mt_pc, mt_a, mt_b, num_threads, mt_result, chunk_size,
          thread_data, thread_pc, thread_i, mt_joined, mt_writers

mt_vars == <<mt_pc, mt_a, mt_b, num_threads, mt_result, chunk_size,
             thread_data, thread_pc, thread_i, mt_joined, mt_writers>>

\* the heap of vectors and the last call of the vector API (part 3)
VARIABLES vectors, buffers, copies, last, n_writes

vec_vars == <<vectors, buffers, copies, last, n_writes>>

\* the vectors handed to vector_free, the free() calls each buffer has had,
\* and whether the process was killed by a fault (part 4)
VARIABLES freed, released, crashed

life_vars == <<freed, released, crashed>>

\* the memory and the one call of the scalar API (part 5)
VARIABLES sc_pc, sc_mem, sc_before, sc_call, sc_ret

scalar_vars == <<sc_pc, sc_mem, sc_before, sc_call, sc_ret>>

\* the matrix and the last call of the matrix API (part 6)
VARIABLES matrix, mx_last

matrix_vars == <<matrix, mx_last>>

\* the variables of parts 4 to 6
more_vars == <<life_vars, scalar_vars, matrix_vars>>

\* get_nprocs_conf() of the machine; the model's machine has two processors
LINEAR_THREAD_COUNT == 2

\* pool->thread_count = (num_threads) ? num_threads : LINEAR_THREAD_COUNT
thread_count == IF NumThreads # 0 THEN NumThreads ELSE LINEAR_THREAD_COUNT

\* pool->queue_size = LINEAR_THREAD_COUNT
queue_size == LINEAR_THREAD_COUNT

Workers == 1 .. thread_count
Clients == (thread_count + 1) .. (thread_count + NumClients)
TaskIds == 1 .. MaxTasks
NoTask == 0
NoThread == 0

\* thread_pool_create: the state of the pool when it returns
thread_pool_create ==
    /\ task_queue = [i \in 0 .. (queue_size - 1) |-> NoTask]
    /\ task_count = 0
    /\ head = 0
    /\ tail = 0
    /\ stop = FALSE
    /\ queue_mutex = NoThread
    /\ task_available = {}
    /\ task_done = {}
    /\ wpc = [w \in Workers |-> "lock"]
    /\ wtask = [w \in Workers |-> NoTask]

\* the program around the pool: no call in progress, nothing submitted
ClientsInit ==
    /\ cpc = [c \in Clients |-> "idle"]
    /\ ctask = [c \in Clients |-> NoTask]
    /\ next_task = 1
    /\ submitted = {}
    /\ performed = [t \in TaskIds |-> 0]
    /\ wait_snapshot = [c \in Clients |-> {}]
    /\ free_called = FALSE

\* pthread_cond_signal: wakes one of the threads blocked on the condition
\* variable, if there is one
cond_signal(cv) == IF cv = {} THEN {{}} ELSE {cv \ {t} : t \in cv}

---------------------------------------------------------------------------
\* worker_thread: pthread_mutex_lock(&pool->queue_mutex)
worker_lock(w) ==
    /\ wpc[w] = "lock"
    /\ queue_mutex = NoThread
    /\ queue_mutex' = w
    /\ wpc' = [wpc EXCEPT ![w] = "check"]
    /\ UNCHANGED <<task_queue, task_count, head, tail, stop, task_available,
                   task_done, wtask, cpc, ctask, next_task, submitted,
                   performed, wait_snapshot, free_called>>
    /\ UNCHANGED <<mt_vars, vec_vars, more_vars>>

\* worker_thread: while (task_count == 0 && !stop) pthread_cond_wait(...)
worker_wait(w) ==
    /\ wpc[w] = "check"
    /\ queue_mutex = w
    /\ task_count = 0 /\ ~stop
    /\ queue_mutex' = NoThread
    /\ task_available' = task_available \cup {w}
    /\ wpc' = [wpc EXCEPT ![w] = "waiting"]
    /\ UNCHANGED <<task_queue, task_count, head, tail, stop, task_done,
                   wtask, cpc, ctask, next_task, submitted, performed,
                   wait_snapshot, free_called>>
    /\ UNCHANGED <<mt_vars, vec_vars, more_vars>>

\* worker_thread: pthread_cond_wait returns, holding the mutex again
worker_wake(w) ==
    /\ wpc[w] = "waiting"
    /\ w \notin task_available
    /\ queue_mutex = NoThread
    /\ queue_mutex' = w
    /\ wpc' = [wpc EXCEPT ![w] = "check"]
    /\ UNCHANGED <<task_queue, task_count, head, tail, stop, task_available,
                   task_done, wtask, cpc, ctask, next_task, submitted,
                   performed, wait_snapshot, free_called>>
    /\ UNCHANGED <<mt_vars, vec_vars, more_vars>>

\* worker_thread: if (pool->stop) { unlock; break; }
worker_stop(w) ==
    /\ wpc[w] = "check"
    /\ queue_mutex = w
    /\ stop
    /\ queue_mutex' = NoThread
    /\ wpc' = [wpc EXCEPT ![w] = "exit"]
    /\ UNCHANGED <<task_queue, task_count, head, tail, stop, task_available,
                   task_done, wtask, cpc, ctask, next_task, submitted,
                   performed, wait_snapshot, free_called>>
    /\ UNCHANGED <<mt_vars, vec_vars, more_vars>>

\* worker_thread: take the task at head, signal task_done, unlock
worker_dequeue(w) ==
    /\ wpc[w] = "check"
    /\ queue_mutex = w
    /\ task_count # 0 /\ ~stop
    /\ wtask' = [wtask EXCEPT ![w] = task_queue[head]]
    /\ head' = (head + 1) % queue_size
    /\ task_count' = task_count - 1
    /\ task_done' \in cond_signal(task_done)
    /\ queue_mutex' = NoThread
    /\ wpc' = [wpc EXCEPT ![w] = "run"]
    /\ UNCHANGED <<task_queue, tail, stop, task_available, cpc, ctask,
                   next_task, submitted, performed, wait_snapshot, free_called>>
    /\ UNCHANGED <<mt_vars, vec_vars, more_vars>>

\* worker_thread: task.operation(task.a, task.b, task.result, task.type)
worker_perform(w) ==
    /\ wpc[w] = "run"
    /\ performed' = IF wtask[w] \in TaskIds
                    THEN [performed EXCEPT ![wtask[w]] = @ + 1]
                    ELSE performed
    /\ wpc' = [wpc EXCEPT ![w] = "lock"]
    /\ UNCHANGED <<task_queue, task_count, head, tail, stop, queue_mutex,
                   task_available, task_done, wtask, cpc, ctask, next_task,
                   submitted, wait_snapshot, free_called>>
    /\ UNCHANGED <<mt_vars, vec_vars, more_vars>>

\* pthread_cond_wait may return without a signal (POSIX spurious wakeup)
spurious_wakeup ==
    \/ /\ \E w \in task_available : task_available' = task_available \ {w}
       /\ UNCHANGED task_done
    \/ /\ \E c \in task_done : task_done' = task_done \ {c}
       /\ UNCHANGED task_available
spurious ==
    /\ spurious_wakeup
    /\ UNCHANGED <<task_queue, task_count, head, tail, stop, queue_mutex,
                   wpc, wtask, cpc, ctask, next_task, submitted, performed,
                   wait_snapshot, free_called>>
    /\ UNCHANGED <<mt_vars, vec_vars, more_vars>>

---------------------------------------------------------------------------
\* a client calls thread_pool_submit(pool, task) with a new task
submit_call(c) ==
    /\ cpc[c] = "idle"
    /\ ~free_called
    /\ next_task <= MaxTasks
    /\ ctask' = [ctask EXCEPT ![c] = next_task]
    /\ next_task' = next_task + 1
    /\ cpc' = [cpc EXCEPT ![c] = "submit_lock"]
    /\ UNCHANGED <<task_queue, task_count, head, tail, stop, queue_mutex,
                   task_available, task_done, wpc, wtask, submitted,
                   performed, wait_snapshot, free_called>>
    /\ UNCHANGED <<mt_vars, vec_vars, more_vars>>

\* thread_pool_submit: pthread_mutex_lock(&pool->queue_mutex)
submit_lock(c) ==
    /\ cpc[c] = "submit_lock"
    /\ queue_mutex = NoThread
    /\ queue_mutex' = c
    /\ cpc' = [cpc EXCEPT ![c] = "submit_enqueue"]
    /\ UNCHANGED <<task_queue, task_count, head, tail, stop, task_available,
                   task_done, wpc, wtask, ctask, next_task, submitted,
                   performed, wait_snapshot, free_called>>
    /\ UNCHANGED <<mt_vars, vec_vars, more_vars>>

\* thread_pool_submit: store the task at tail, signal task_available, unlock
thread_pool_submit(c) ==
    /\ cpc[c] = "submit_enqueue"
    /\ queue_mutex = c
    /\ task_queue' = [task_queue EXCEPT ![tail] = ctask[c]]
    /\ tail' = (tail + 1) % queue_size
    /\ task_count' = task_count + 1
    /\ task_available' \in cond_signal(task_available)
    /\ queue_mutex' = NoThread
    /\ submitted' = submitted \cup {ctask[c]}
    /\ cpc' = [cpc EXCEPT ![c] = "idle"]
    /\ UNCHANGED <<head, stop, task_done, wpc, wtask, ctask, next_task,
                   performed, wait_snapshot, free_called>>
    /\ UNCHANGED <<mt_vars, vec_vars, more_vars>>

\* a client calls thread_pool_wait(pool); the tasks whose submit has returned
\* are noted
wait_call(c) ==
    /\ cpc[c] = "idle"
    /\ ~free_called
    /\ wait_snapshot' = [wait_snapshot EXCEPT ![c] = submitted]
    /\ cpc' = [cpc EXCEPT ![c] = "wait_lock"]
    /\ UNCHANGED <<task_queue, task_count, head, tail, stop, queue_mutex,
                   task_available, task_done, wpc, wtask, ctask, next_task,
                   submitted, performed, free_called>>
    /\ UNCHANGED <<mt_vars, vec_vars, more_vars>>

\* thread_pool_wait: pthread_mutex_lock(&pool->queue_mutex)
wait_lock(c) ==
    /\ cpc[c] = "wait_lock"
    /\ queue_mutex = NoThread
    /\ queue_mutex' = c
    /\ cpc' = [cpc EXCEPT ![c] = "wait_check"]
    /\ UNCHANGED <<task_queue, task_count, head, tail, stop, task_available,
                   task_done, wpc, wtask, ctask, next_task, submitted,
                   performed, wait_snapshot, free_called>>
    /\ UNCHANGED <<mt_vars, vec_vars, more_vars>>

\* thread_pool_wait: while (task_count > 0) pthread_cond_wait(&task_done, ..)
wait_block(c) ==
    /\ cpc[c] = "wait_check"
    /\ queue_mutex = c
    /\ task_count > 0
    /\ queue_mutex' = NoThread
    /\ task_done' = task_done \cup {c}
    /\ cpc' = [cpc EXCEPT ![c] = "wait_blocked"]
    /\ UNCHANGED <<task_queue, task_count, head, tail, stop, task_available,
                   wpc, wtask, ctask, next_task, submitted, performed,
                   wait_snapshot, free_called>>
    /\ UNCHANGED <<mt_vars, vec_vars, more_vars>>

\* thread_pool_wait: pthread_cond_wait returns, holding the mutex again
wait_wake(c) ==
    /\ cpc[c] = "wait_blocked"
    /\ c \notin task_done
    /\ queue_mutex = NoThread
    /\ queue_mutex' = c
    /\ cpc' = [cpc EXCEPT ![c] = "wait_check"]
    /\ UNCHANGED <<task_queue, task_count, head, tail, stop, task_available,
                   task_done, wpc, wtask, ctask, next_task, submitted,
                   performed, wait_snapshot, free_called>>
    /\ UNCHANGED <<mt_vars, vec_vars, more_vars>>

\* thread_pool_wait: the loop ends, pthread_mutex_unlock, return
thread_pool_wait(c) ==
    /\ cpc[c] = "wait_check"
    /\ queue_mutex = c
    /\ ~(task_count > 0)
    /\ queue_mutex' = NoThread
    /\ cpc' = [cpc EXCEPT ![c] = "wait_returned"]
    /\ UNCHANGED <<task_queue, task_count, head, tail, stop, task_available,
                   task_done, wpc, wtask, ctask, next_task, submitted,
                   performed, wait_snapshot, free_called>>
    /\ UNCHANGED <<mt_vars, vec_vars, more_vars>>

\* the caller of thread_pool_wait goes on
wait_done(c) ==
    /\ cpc[c] = "wait_returned"
    /\ cpc' = [cpc EXCEPT ![c] = "idle"]
    /\ UNCHANGED <<task_queue, task_count, head, tail, stop, queue_mutex,
                   task_available, task_done, wpc, wtask, ctask, next_task,
                   submitted, performed, wait_snapshot, free_called>>
    /\ UNCHANGED <<mt_vars, vec_vars, more_vars>>

\* a client calls thread_pool_free(pool) while no other call is in progress
free_call(c) ==
    /\ \A d \in Clients : cpc[d] = "idle"
    /\ ~free_called
    /\ free_called' = TRUE
    /\ cpc' = [cpc EXCEPT ![c] = "free_lock"]
    /\ UNCHANGED <<task_queue, task_count, head, tail, stop, queue_mutex,
                   task_available, task_done, wpc, wtask, ctask, next_task,
                   submitted, performed, wait_snapshot>>
    /\ UNCHANGED <<mt_vars, vec_vars, more_vars>>

\* thread_pool_free: lock, stop = 1, broadcast task_available, unlock
free_stop(c) ==
    /\ cpc[c] = "free_lock"
    /\ queue_mutex = NoThread
    /\ stop' = TRUE
    /\ task_available' = {}
    /\ cpc' = [cpc EXCEPT ![c] = "free_join"]
    /\ UNCHANGED <<task_queue, task_count, head, tail, queue_mutex, task_done,
                   wpc, wtask, ctask, next_task, submitted, performed,
                   wait_snapshot, free_called>>
    /\ UNCHANGED <<mt_vars, vec_vars, more_vars>>

\* thread_pool_free: every worker is joined, the pool is released
thread_pool_free(c) ==
    /\ cpc[c] = "free_join"
    /\ \A w \in Workers : wpc[w] = "exit"
    /\ cpc' = [cpc EXCEPT ![c] = "freed"]
    /\ UNCHANGED <<task_queue, task_count, head, tail, stop, queue_mutex,
                   task_available, task_done, wpc, wtask, ctask, next_task,
                   submitted, performed, wait_snapshot, free_called>>
    /\ UNCHANGED <<mt_vars, vec_vars, more_vars>>

PoolStep ==
    \/ \E w \in Workers : worker_lock(w)
    \/ \E w \in Workers : worker_wait(w)
    \/ \E w \in Workers : worker_wake(w)
    \/ \E w \in Workers : worker_stop(w)
    \/ \E w \in Workers : worker_dequeue(w)
    \/ \E w \in Workers : worker_perform(w)
    \/ spurious
    \/ \E c \in Clients : submit_call(c)
    \/ \E c \in Clients : submit_lock(c)
    \/ \E c \in Clients : thread_pool_submit(c)
    \/ \E c \in Clients : wait_call(c)
    \/ \E c \in Clients : wait_lock(c)
    \/ \E c \in Clients : wait_block(c)
    \/ \E c \in Clients : wait_wake(c)
    \/ \E c \in Clients : thread_pool_wait(c)
    \/ \E c \in Clients : wait_done(c)
    \/ \E c \in Clients : free_call(c)
    \/ \E c \in Clients : free_stop(c)
    \/ \E c \in Clients : thread_pool_free(c)

(***************************************************************************)
(* Single-precision values.  A float is a pair <<n, d>>: the rational n/d  *)
(* in lowest terms with d > 0, or NaN, written <<0, 0>>.  The values of    *)
(* the model are small, so the exact result of one operation stands for    *)
(* its correctly rounded float.                                            *)
(***************************************************************************)
NaN == <<0, 0>>
Fl(n) == <<n, 1>>
IsNaN(x) == x[2] = 0
Abs(n) == IF n < 0 THEN -n ELSE n

RECURSIVE GCD(_, _)
GCD(m, n) == IF n = 0 THEN m ELSE GCD(n, m % n)

Norm(n, d) ==
    LET g == GCD(Abs(n), Abs(d))
        s == IF d < 0 THEN -1 ELSE 1
    IN  <<(s * n) \div g, (s * d) \div g>>

\* x + y
scalar_add(x, y) ==
    IF IsNaN(x) \/ IsNaN(y) THEN NaN
    ELSE Norm(x[1] * y[2] + y[1] * x[2], x[2] * y[2])

\* x - y
scalar_subtract(x, y) ==
    IF IsNaN(x) \/ IsNaN(y) THEN NaN
    ELSE Norm(x[1] * y[2] - y[1] * x[2], x[2] * y[2])

\* x * y
scalar_multiply(x, y) ==
    IF IsNaN(x) \/ IsNaN(y) THEN NaN
    ELSE Norm(x[1] * y[1], x[2] * y[2])

\* if (y == 0) return NAN; return x / y
scalar_divide(x, y) ==
    IF y = Fl(0) THEN NaN
    ELSE IF IsNaN(x) \/ IsNaN(y) THEN NaN
    ELSE Norm(x[1] * y[2], x[2] * y[1])

\* vector_vector_subtract hands scalar_add to the executor
operation_wrong_pointer(op, x, y) ==
    CASE op = "add" -> scalar_add(x, y)
      [] op = "subtract" -> scalar_add(x, y)
      [] op = "multiply" -> scalar_multiply(x, y)
      [] op = "divide" -> scalar_divide(x, y)

\* the float (*operation)(float, float) handed to the element-wise executors
Operations == {"add", "subtract", "multiply", "divide"}
operation(op, x, y) ==
    CASE op = "add" -> scalar_add(x, y)
      [] op = "subtract" -> scalar_subtract(x, y)
      [] op = "multiply" -> scalar_multiply(x, y)
      [] op = "divide" -> scalar_divide(x, y)

\* the element values a caller stores into a vector
Values == {Fl(0), Fl(1), Fl(2)}

\* vector_create's loop: data[i] = 0.0f for i < columns
zero_data(columns) == [i \in 1 .. columns |-> Fl(0)]

\* the loop of vector_vector_elementwise_operation over equal-length data:
\* c->data[i] = operation(a->data[i], b->data[i]) for i < a->columns
elementwise_data(a, b, op) ==
    [i \in 1 .. Len(a) |-> operation(op, a[i], b[i])]

(***************************************************************************)
(* Part 2: vector_vector_add_mt (tests/test_linear_thread.c).              *)
(***************************************************************************)
\* longest vector handed to vector_vector_add_mt
MaxColumns == 3
\* largest num_threads handed to vector_vector_add_mt
MaxMTThreads == 3

\* the vectors a caller can hand in
Vectors(maxlen) == UNION {[1 .. n -> Values] : n \in 0 .. maxlen}

\* vector_vector_add_mt(a, b, num_threads) is called
MTCall ==
    /\ mt_pc = "call"
    /\ mt_a \in Vectors(MaxColumns)
    /\ mt_b \in Vectors(MaxColumns)
    /\ num_threads \in 1 .. MaxMTThreads
    /\ mt_result = <<>>
    /\ chunk_size = 0
    /\ thread_data = <<>>
    /\ thread_pc = <<>>
    /\ thread_i = <<>>
    /\ mt_joined = 0
    /\ mt_writers = <<>>

\* no call of vector_vector_add_mt
MTIdle ==
    /\ mt_pc = "idle"
    /\ mt_a = <<>>
    /\ mt_b = <<>>
    /\ num_threads = 1
    /\ mt_result = <<>>
    /\ chunk_size = 0
    /\ thread_data = <<>>
    /\ thread_pc = <<>>
    /\ thread_i = <<>>
    /\ mt_joined = 0
    /\ mt_writers = <<>>

\* a chunk that starts one element early: it overlaps the chunk before it
chunk_begin_overlap(i, chunk, columns, n) ==
    IF i * chunk > 0 THEN i * chunk - 1 ELSE 0

\* the last chunk ends like the others: the remainder of the division is lost
chunk_end_no_remainder(i, chunk, columns, n) == (i + 1) * chunk

\* thread_data[i].begin = i * chunk_size
chunk_begin(i, chunk, columns, n) == i * chunk

\* thread_data[i].end = (i == num_threads - 1) ? columns : (i + 1) * chunk_size
chunk_end(i, chunk, columns, n) ==
    IF i = n - 1 THEN columns ELSE (i + 1) * chunk

\* vector_vector_add_mt: if (a->columns != b->columns) return NULL
mt_dimension_mismatch ==
    /\ mt_pc = "call"
    /\ Len(mt_a) # Len(mt_b)
    /\ mt_pc' = "null"
    /\ UNCHANGED <<mt_a, mt_b, num_threads, mt_result, chunk_size,
                   thread_data, thread_pc, thread_i, mt_joined, mt_writers>>
    /\ UNCHANGED <<pool_vars, vec_vars, more_vars>>

\* vector_vector_add_mt: result = vector_create(a->columns) fails
mt_create_fails ==
    /\ mt_pc = "call"
    /\ Len(mt_a) = Len(mt_b)
    /\ mt_pc' = "null"
    /\ UNCHANGED <<mt_a, mt_b, num_threads, mt_result, chunk_size,
                   thread_data, thread_pc, thread_i, mt_joined, mt_writers>>
    /\ UNCHANGED <<pool_vars, vec_vars, more_vars>>

\* vector_vector_add_mt: result = vector_create(a->columns);
\* chunk_size = a->columns / num_threads
mt_begin ==
    /\ mt_pc = "call"
    /\ Len(mt_a) = Len(mt_b)
    /\ mt_result' = zero_data(Len(mt_a))
    /\ mt_writers' = [i \in 1 .. Len(mt_a) |-> {}]
    /\ chunk_size' = Len(mt_a) \div num_threads
    /\ mt_pc' = "create"
    /\ UNCHANGED <<mt_a, mt_b, num_threads, thread_data, thread_pc,
                   thread_i, mt_joined>>
    /\ UNCHANGED <<pool_vars, vec_vars, more_vars>>

\* vector_vector_add_mt: one turn of the loop that fills thread_data[i] and
\* starts thread i with pthread_create
mt_pthread_create ==
    /\ mt_pc = "create"
    /\ LET i == Len(thread_data)
           b == chunk_begin(i, chunk_size, Len(mt_a), num_threads)
           e == chunk_end(i, chunk_size, Len(mt_a), num_threads)
       IN  /\ thread_data' = Append(thread_data, [begin |-> b, end |-> e])
           /\ thread_pc' = Append(thread_pc, "running")
           /\ thread_i' = Append(thread_i, b)
           /\ mt_pc' = IF i + 1 < num_threads THEN "create" ELSE "join"
    /\ UNCHANGED <<mt_a, mt_b, num_threads, mt_result, chunk_size,
                   mt_joined, mt_writers>>
    /\ UNCHANGED <<pool_vars, vec_vars, more_vars>>

\* thread_vector_add_mt: one turn of the loop,
\* result->data[i] = scalar_add(a->data[i], b->data[i])
thread_vector_add_mt(t) ==
    /\ thread_pc[t] = "running"
    /\ thread_i[t] < thread_data[t].end
    /\ LET i == thread_i[t]
       IN  /\ mt_result' = [mt_result EXCEPT
                               ![i + 1] = scalar_add(mt_a[i + 1], mt_b[i + 1])]
           /\ mt_writers' = [mt_writers EXCEPT ![i + 1] = @ \cup {t}]
           /\ thread_i' = [thread_i EXCEPT ![t] = i + 1]
    /\ UNCHANGED <<mt_pc, mt_a, mt_b, num_threads, chunk_size, thread_data,
                   thread_pc, mt_joined>>
    /\ UNCHANGED <<pool_vars, vec_vars, more_vars>>

\* thread_vector_add_mt: the loop ends, return NULL
thread_return(t) ==
    /\ thread_pc[t] = "running"
    /\ ~(thread_i[t] < thread_data[t].end)
    /\ thread_pc' = [thread_pc EXCEPT ![t] = "returned"]
    /\ UNCHANGED <<mt_pc, mt_a, mt_b, num_threads, mt_result, chunk_size,
                   thread_data, thread_i, mt_joined, mt_writers>>
    /\ UNCHANGED <<pool_vars, vec_vars, more_vars>>

\* vector_vector_add_mt: pthread_join(threads[i], NULL), in order; after the
\* last one, return result
mt_pthread_join ==
    /\ mt_pc = "join"
    /\ thread_pc[mt_joined + 1] = "returned"
    /\ mt_joined' = mt_joined + 1
    /\ mt_pc' = IF mt_joined + 1 < num_threads THEN "join" ELSE "return"
    /\ UNCHANGED <<mt_a, mt_b, num_threads, mt_result, chunk_size,
                   thread_data, thread_pc, thread_i, mt_writers>>
    /\ UNCHANGED <<pool_vars, vec_vars, more_vars>>

MTStep ==
    \/ mt_dimension_mismatch
    \/ mt_create_fails
    \/ mt_begin
    \/ mt_pthread_create
    \/ \E t \in 1 .. Len(thread_pc) : thread_vector_add_mt(t)
    \/ \E t \in 1 .. Len(thread_pc) : thread_return(t)
    \/ mt_pthread_join

(***************************************************************************)
(* Part 3: the vector API (src/vector.c).  The heap holds the allocated    *)
(* struct Vector objects and the allocated float buffers; a vector_t* is   *)
(* the identity of a struct, its data field the identity of a buffer.      *)
(***************************************************************************)
\* struct Vector objects (and buffers) the allocator has to give
MaxVecs == 2
\* largest columns handed to vector_create
MaxDim == 2
\* element stores a caller makes in one run
MaxWrites == 2

NULL == 0
VecIds == 1 .. MaxVecs
BufIds == 1 .. MaxVecs

\* the heap as a value: the operations below map a heap to a heap and a result
Heap == [vectors |-> vectors, buffers |-> buffers]

Min(S) == CHOOSE x \in S : \A y \in S : x <= y

\* malloc(sizeof(vector_t)): an unused struct, or NULL when none is left
malloc_vector(h) ==
    IF VecIds \ DOMAIN h.vectors = {} THEN NULL
    ELSE Min(VecIds \ DOMAIN h.vectors)

\* malloc(columns * sizeof(float)): an unused buffer, or NULL when none is left
malloc_data(h) ==
    IF BufIds \ DOMAIN h.buffers = {} THEN NULL
    ELSE Min(BufIds \ DOMAIN h.buffers)

\* vector->data[i], i counted from 0
Read(h, v, i) == h.buffers[h.vectors[v].data][i + 1]

\* all of vector->data
Data(h, v) == h.buffers[h.vectors[v].data]

\* vector_create whose loop stops one element early: the last element keeps
\* what malloc left there
vector_create_short_loop(h, columns, mem) ==
    LET vector == IF mem THEN malloc_vector(h) ELSE NULL
        data == IF mem THEN malloc_data(h) ELSE NULL
    IN  IF vector = NULL \/ data = NULL
        THEN [h |-> h, ret |-> NULL]
        ELSE [h |-> [vectors |-> h.vectors @@
                        (vector :> [columns |-> columns, data |-> data]),
                     buffers |-> h.buffers @@
                        (data :> [i \in 1 .. columns |->
                                    IF i < columns THEN Fl(0) ELSE NaN])],
              ret |-> vector]

\* vector_create(columns); mem says whether the allocator has memory to give
vector_create(h, columns, mem) ==
    LET vector == IF mem THEN malloc_vector(h) ELSE NULL
        data == IF mem THEN malloc_data(h) ELSE NULL
    IN  IF vector = NULL \/ data = NULL
        THEN [h |-> h, ret |-> NULL]
        ELSE [h |-> [vectors |-> h.vectors @@
                        (vector :> [columns |-> columns, data |-> data]),
                     buffers |-> h.buffers @@ (data :> zero_data(columns))],
              ret |-> vector]

\* a deep copy that takes over the data pointer of its input
vector_deep_copy_shared(h, vector, mem) ==
    LET new_vector == IF mem THEN malloc_vector(h) ELSE NULL
    IN  IF new_vector = NULL
        THEN [h |-> h, ret |-> NULL]
        ELSE [h |-> [h EXCEPT !.vectors = @ @@
                        (new_vector :> [columns |-> h.vectors[vector].columns,
                                        data |-> h.vectors[vector].data])],
              ret |-> new_vector]

\* vector_deep_copy(vector)
vector_deep_copy(h, vector, mem) ==
    LET r == vector_create(h, h.vectors[vector].columns, mem)
    IN  IF r.ret = NULL THEN r
        ELSE [h |-> [r.h EXCEPT !.buffers[r.h.vectors[r.ret].data] =
                        [i \in 1 .. h.vectors[vector].columns |->
                            Data(h, vector)[i]]],
              ret |-> r.ret]

\* a shallow copy that allocates and fills a buffer of its own
vector_shallow_copy_own_buffer(h, vector, mem) ==
    LET r == vector_create(h, h.vectors[vector].columns, mem)
    IN  IF r.ret = NULL THEN r
        ELSE [h |-> [r.h EXCEPT !.buffers[r.h.vectors[r.ret].data] =
                        h.buffers[h.vectors[vector].data]],
              ret |-> r.ret]

\* vector_shallow_copy(vector)
vector_shallow_copy(h, vector, mem) ==
    LET new_vector == IF mem THEN malloc_vector(h) ELSE NULL
    IN  IF vector = NULL \/ new_vector = NULL
        THEN [h |-> h, ret |-> NULL]
        ELSE [h |-> [h EXCEPT !.vectors = @ @@
                        (new_vector :> [columns |-> h.vectors[vector].columns,
                                        data |-> h.vectors[vector].data])],
              ret |-> new_vector]

\* an executor that compares the dimensions after it has created the result
vector_vector_elementwise_operation_late_check(h, a, b, op, mem) ==
    LET r == vector_create(h, h.vectors[a].columns, mem)
    IN  IF r.ret = NULL THEN r
        ELSE IF h.vectors[a].columns # h.vectors[b].columns
        THEN [h |-> r.h, ret |-> NULL]
        ELSE [h |-> [r.h EXCEPT !.buffers[r.h.vectors[r.ret].data] =
                        elementwise_data(Data(h, a), Data(h, b), op)],
              ret |-> r.ret]

\* vector_vector_elementwise_operation(a, b, operation)
vector_vector_elementwise_operation(h, a, b, op, mem) ==
    IF h.vectors[a].columns # h.vectors[b].columns
    THEN [h |-> h, ret |-> NULL]
    ELSE LET r == vector_create(h, h.vectors[a].columns, mem)
         IN  IF r.ret = NULL THEN r
             ELSE [h |-> [r.h EXCEPT !.buffers[r.h.vectors[r.ret].data] =
                             elementwise_data(Data(h, a), Data(h, b), op)],
                   ret |-> r.ret]

\* sqrtf on the values of the model: exact on a square, else rounded down to
\* a multiple of 1/16 (where the C library rounds to 24 bits)
isqrt(m) == CHOOSE r \in 0 .. m : r * r <= m /\ (r + 1) * (r + 1) > m
sqrtf(x) ==
    IF IsNaN(x) \/ x[1] < 0 THEN NaN
    ELSE Norm(isqrt(x[1] * x[2] * 256), x[2] * 16)

\* the accumulating loops of vector_distance and vector_dot_product, i < n
RECURSIVE distance_squared(_, _, _)
distance_squared(a, b, n) ==
    IF n = 0 THEN Fl(0)
    ELSE scalar_add(distance_squared(a, b, n - 1),
                    scalar_multiply(scalar_subtract(a[n], b[n]),
                                    scalar_subtract(a[n], b[n])))

RECURSIVE product(_, _, _)
product(a, b, n) ==
    IF n = 0 THEN Fl(0)
    ELSE scalar_add(product(a, b, n - 1), scalar_multiply(a[n], b[n]))

\* vector_distance(a, b)
vector_distance(h, a, b) ==
    IF h.vectors[a].columns # h.vectors[b].columns THEN NaN
    ELSE sqrtf(distance_squared(Data(h, a), Data(h, b), h.vectors[a].columns))

\* vector_dot_product(a, b)
vector_dot_product(h, a, b) ==
    IF h.vectors[a].columns # h.vectors[b].columns THEN NaN
    ELSE product(Data(h, a), Data(h, b), h.vectors[a].columns)

---------------------------------------------------------------------------
\* the record of the last call: function, operation, arguments, results
Call(fn, op, a, b, n, x, ret) ==
    [fn |-> fn, op |-> op, a |-> a, b |-> b, n |-> n, x |-> x, ret |-> ret]

\* the heap before any call
VecInit ==
    /\ vectors = <<>>
    /\ buffers = <<>>
    /\ copies = {}
    /\ last = Call("none", "none", NULL, NULL, 0, Fl(0), NULL)
    /\ n_writes = 0

\* two vectors that a caller has created and filled earlier; they lie outside
\* the memory the allocator still has to give
OperandA == MaxVecs + 1
OperandB == MaxVecs + 2
VecOperands ==
    /\ \E a \in Vectors(MaxDim), b \in Vectors(MaxDim) :
        /\ vectors = (OperandA :> [columns |-> Len(a), data |-> OperandA])
                      @@ (OperandB :> [columns |-> Len(b), data |-> OperandB])
        /\ buffers = (OperandA :> a) @@ (OperandB :> b)
    /\ copies = {}
    /\ last = Call("none", "none", NULL, NULL, 0, Fl(0), NULL)
    /\ n_writes = 0

\* the vectors a caller may still use: those it has not handed to vector_free
Live == DOMAIN vectors \ freed

\* a caller calls vector_create(columns)
create_call ==
    \E columns \in 0 .. MaxDim, mem \in BOOLEAN :
        LET r == vector_create(Heap, columns, mem)
        IN  /\ vectors' = r.h.vectors
            /\ buffers' = r.h.buffers
            /\ last' = Call("vector_create", "none", NULL, NULL, columns,
                            Fl(0), r.ret)
            /\ UNCHANGED <<copies, n_writes>>
            /\ UNCHANGED <<pool_vars, mt_vars, more_vars>>

\* a caller calls vector_deep_copy(vector)
deep_copy_call ==
    \E vector \in Live, mem \in BOOLEAN :
        LET r == vector_deep_copy(Heap, vector, mem)
        IN  /\ vectors' = r.h.vectors
            /\ buffers' = r.h.buffers
            /\ last' = Call("vector_deep_copy", "none", vector, NULL, 0,
                            Fl(0), r.ret)
            /\ copies' = IF r.ret = NULL THEN copies
                         ELSE copies \cup {<<"deep", vector, r.ret>>}
            /\ UNCHANGED n_writes
            /\ UNCHANGED <<pool_vars, mt_vars, more_vars>>

\* a caller calls vector_shallow_copy(vector)
shallow_copy_call ==
    \E vector \in Live, mem \in BOOLEAN :
        LET r == vector_shallow_copy(Heap, vector, mem)
        IN  /\ vectors' = r.h.vectors
            /\ buffers' = r.h.buffers
            /\ last' = Call("vector_shallow_copy", "none", vector, NULL, 0,
                            Fl(0), r.ret)
            /\ copies' = IF r.ret = NULL THEN copies
                         ELSE copies \cup {<<"shallow", vector, r.ret>>}
            /\ UNCHANGED n_writes
            /\ UNCHANGED <<pool_vars, mt_vars, more_vars>>

\* a caller calls vector_vector_add / _subtract / _multiply / _divide (a, b),
\* as the one call of the run
vector_vector_call ==
    /\ last.fn = "none"
    /\ \E a \in DOMAIN vectors, b \in DOMAIN vectors, op \in Operations,
       mem \in BOOLEAN :
        LET r == vector_vector_elementwise_operation(Heap, a, b, op, mem)
        IN  /\ vectors' = r.h.vectors
            /\ buffers' = r.h.buffers
            /\ last' = Call("vector_vector", op, a, b, 0, Fl(0), r.ret)
            /\ UNCHANGED <<copies, n_writes>>
            /\ UNCHANGED <<pool_vars, mt_vars, more_vars>>

\* a caller calls vector_distance(a, b), as the one call of the run
distance_call ==
    /\ last.fn = "none"
    /\ \E a \in DOMAIN vectors, b \in DOMAIN vectors :
        /\ last' = Call("vector_distance", "none", a, b, 0,
                        vector_distance(Heap, a, b), NULL)
        /\ UNCHANGED <<vectors, buffers, copies, n_writes>>
        /\ UNCHANGED <<pool_vars, mt_vars, more_vars>>

\* a caller calls vector_dot_product(a, b), as the one call of the run
dot_product_call ==
    /\ last.fn = "none"
    /\ \E a \in DOMAIN vectors, b \in DOMAIN vectors :
        /\ last' = Call("vector_dot_product", "none", a, b, 0,
                        vector_dot_product(Heap, a, b), NULL)
        /\ UNCHANGED <<vectors, buffers, copies, n_writes>>
        /\ UNCHANGED <<pool_vars, mt_vars, more_vars>>

\* a caller stores vector->data[i] = x
write ==
    /\ n_writes < MaxWrites
    /\ \E vector \in Live, x \in Values :
        \E i \in 0 .. (vectors[vector].columns - 1) :
            /\ buffers' = [buffers EXCEPT ![vectors[vector].data][i + 1] = x]
            /\ last' = Call("write", "none", vector, NULL, 0, Fl(0), NULL)
    /\ n_writes' = n_writes + 1
    /\ UNCHANGED <<vectors, copies>>
    /\ UNCHANGED <<pool_vars, mt_vars, more_vars>>

VecStep ==
    \/ create_call
    \/ deep_copy_call
    \/ shallow_copy_call
    \/ write

VecOpsStep ==
    \/ vector_vector_call
    \/ distance_call
    \/ dot_product_call

(***************************************************************************)
(* Part 4: vector_free (src/vector.c).  A freed struct and a freed buffer  *)
(* keep their identity: the allocator of the model hands out every struct  *)
(* and buffer once.  released counts the free() calls a buffer has had.    *)
(***************************************************************************)
\* a vector_free that leaves alone a buffer that has been released already
vector_free_once(h, rel, vector) ==
    IF vector = NULL THEN rel
    ELSE IF h.vectors[vector].data # NULL /\ rel[h.vectors[vector].data] = 0
    THEN [rel EXCEPT ![h.vectors[vector].data] = @ + 1]
    ELSE rel

\* vector_free(vector): if (vector == NULL) return;
\* if (vector->data) free(vector->data); free(vector)
vector_free(h, rel, vector) ==
    IF vector = NULL THEN rel
    ELSE IF h.vectors[vector].data # NULL
    THEN [rel EXCEPT ![h.vectors[vector].data] = @ + 1]
    ELSE rel

\* nothing has been freed, the process runs
LifeInit ==
    /\ freed = {}
    /\ released = [b \in BufIds \cup {OperandA, OperandB} |-> 0]
    /\ crashed = FALSE

\* a caller calls vector_free(vector), on NULL or on a vector it still holds
vector_free_call ==
    \E vector \in Live \cup {NULL} :
        /\ released' = vector_free(Heap, released, vector)
        /\ freed' = IF vector = NULL THEN freed ELSE freed \cup {vector}
        /\ last' = Call("vector_free", "none", vector, NULL, 0, Fl(0), NULL)
        /\ UNCHANGED <<vectors, buffers, copies, n_writes, crashed>>
        /\ UNCHANGED <<pool_vars, mt_vars, scalar_vars, matrix_vars>>

FreeStep ==
    \/ create_call
    \/ shallow_copy_call
    \/ vector_free_call

(***************************************************************************)
(* The functions of src/vector.c with an inplace flag.  Each operator maps *)
(* a heap to the heap after the call, the returned pointer and whether the *)
(* call ended in a fault instead of returning.                             *)
(***************************************************************************)
\* x / y of two floats, y not zero
fdiv(x, y) ==
    IF IsNaN(x) \/ IsNaN(y) \/ y[1] = 0 THEN NaN
    ELSE Norm(x[1] * y[2], x[2] * y[1])

\* x < y of two floats; false when either is NaN
fless(x, y) == ~IsNaN(x) /\ ~IsNaN(y) /\ x[1] * y[2] < y[1] * x[2]

\* vector_magnitude(vector): sqrt of the sum of the squares
vector_magnitude(h, vector) ==
    sqrtf(product(Data(h, vector), Data(h, vector), h.vectors[vector].columns))

\* the outcomes of reading vector->columns through a NULL pointer, which the
\* language leaves undefined: the read faults, or it yields 0
NullReads == {"fault", "zero"}

Returned(h, ret) == [h |-> h, ret |-> ret, fault |-> FALSE]
Fault(h) == [h |-> h, ret |-> NULL, fault |-> TRUE]

\* one turn of vector_clip's in-place loop
clip_inplace(x, min, max) ==
    LET y == IF fless(x, min) THEN min ELSE x
    IN  IF fless(max, y) THEN max ELSE y

\* one turn of vector_clip's loop into the new vector
clip_copy(x, min, max) ==
    IF fless(x, min) THEN min ELSE IF fless(max, x) THEN max ELSE x

\* vector_normalize(vector, inplace); vector_magnitude dereferences vector
\* before any test, so a NULL vector is read through (nullread)
vector_normalize(h, vector, inplace, mem, nullread) ==
    IF vector = NULL
    THEN IF nullread = "fault" THEN Fault(h) ELSE Returned(h, NULL)
    ELSE LET magnitude == vector_magnitude(h, vector)
             columns == h.vectors[vector].columns
         IN  IF magnitude = Fl(0) THEN Returned(h, NULL)
             ELSE IF inplace
             THEN Returned([h EXCEPT !.buffers[h.vectors[vector].data] =
                               [i \in 1 .. columns |-> fdiv(@[i], magnitude)]],
                           vector)
             ELSE LET r == vector_create(h, columns, mem)
                  IN  IF r.ret = NULL THEN Returned(h, NULL)
                      ELSE Returned(
                             [r.h EXCEPT !.buffers[r.h.vectors[r.ret].data] =
                                 [i \in 1 .. columns |->
                                     fdiv(Data(h, vector)[i], magnitude)]],
                             r.ret)

\* vector_scale(vector, scalar, inplace)
vector_scale(h, vector, scalar, inplace, mem) ==
    IF vector = NULL THEN Returned(h, NULL)
    ELSE LET columns == h.vectors[vector].columns
         IN  IF inplace
             THEN Returned([h EXCEPT !.buffers[h.vectors[vector].data] =
                               [i \in 1 .. columns |->
                                   scalar_multiply(@[i], scalar)]],
                           vector)
             ELSE LET r == vector_create(h, columns, mem)
                  IN  IF r.ret = NULL THEN Returned(h, NULL)
                      ELSE Returned(
                             [r.h EXCEPT !.buffers[r.h.vectors[r.ret].data] =
                                 [i \in 1 .. columns |->
                                     scalar_multiply(Data(h, vector)[i],
                                                     scalar)]],
                             r.ret)

\* vector_clip(vector, min, max, inplace)
vector_clip(h, vector, min, max, inplace, mem) ==
    IF vector = NULL THEN Returned(h, NULL)
    ELSE IF h.vectors[vector].columns = 0 THEN Returned(h, NULL)
    ELSE LET columns == h.vectors[vector].columns
         IN  IF inplace
             THEN Returned([h EXCEPT !.buffers[h.vectors[vector].data] =
                               [i \in 1 .. columns |->
                                   clip_inplace(@[i], min, max)]],
                           vector)
             ELSE LET r == vector_create(h, columns, mem)
                  IN  IF r.ret = NULL THEN Returned(h, NULL)
                      ELSE Returned(
                             [r.h EXCEPT !.buffers[r.h.vectors[r.ret].data] =
                                 [i \in 1 .. columns |->
                                     clip_copy(Data(h, vector)[i], min, max)]],
                             r.ret)

\* the inplace argument as the call record keeps it
Flag(inplace) == IF inplace THEN "inplace" ELSE "copy"

\* a caller calls vector_normalize(vector, inplace), as the one call of the run
normalize_call ==
    /\ last.fn = "none"
    /\ \E vector \in Live \cup {NULL}, inplace \in BOOLEAN, mem \in BOOLEAN,
          nullread \in NullReads :
        LET r == vector_normalize(Heap, vector, inplace, mem, nullread)
        IN  /\ vectors' = r.h.vectors
            /\ buffers' = r.h.buffers
            /\ crashed' = r.fault
            /\ last' = Call("vector_normalize", Flag(inplace), vector, NULL,
                            0, Fl(0), r.ret)
    /\ UNCHANGED <<copies, n_writes, freed, released>>
    /\ UNCHANGED <<pool_vars, mt_vars, scalar_vars, matrix_vars>>

\* a caller calls vector_scale(vector, scalar, inplace), as the one call of
\* the run
scale_call ==
    /\ last.fn = "none"
    /\ \E vector \in Live \cup {NULL}, scalar \in Values, inplace \in BOOLEAN,
          mem \in BOOLEAN :
        LET r == vector_scale(Heap, vector, scalar, inplace, mem)
        IN  /\ vectors' = r.h.vectors
            /\ buffers' = r.h.buffers
            /\ crashed' = r.fault
            /\ last' = Call("vector_scale", Flag(inplace), vector, NULL, 0,
                            scalar, r.ret)
    /\ UNCHANGED <<copies, n_writes, freed, released>>
    /\ UNCHANGED <<pool_vars, mt_vars, scalar_vars, matrix_vars>>

\* a caller calls vector_clip(vector, min, max, inplace), as the one call of
\* the run
clip_call ==
    /\ last.fn = "none"
    /\ \E vector \in Live \cup {NULL}, min \in Values, max \in Values,
          inplace \in BOOLEAN, mem \in BOOLEAN :
        LET r == vector_clip(Heap, vector, min, max, inplace, mem)
        IN  /\ vectors' = r.h.vectors
            /\ buffers' = r.h.buffers
            /\ crashed' = r.fault
            /\ last' = Call("vector_clip", Flag(inplace), vector, NULL, 0,
                            min, r.ret)
    /\ UNCHANGED <<copies, n_writes, freed, released>>
    /\ UNCHANGED <<pool_vars, mt_vars, scalar_vars, matrix_vars>>

InplaceStep ==
    \/ normalize_call
    \/ scale_call
    \/ clip_call

(***************************************************************************)
(* Part 5: the scalar API (src/scalar.c).  The operands and the result are *)
(* cells of memory handed in by address; the cells of one run all hold     *)
(* floats or all hold 32-bit integers.  An int32_t is an integer of        *)
(* INT32_MIN .. INT32_MAX.                                                 *)
(***************************************************************************)
NUMERIC_FLOAT32 == 0
NUMERIC_INT32 == 1
NUMERIC_TYPES == 2
INT32_MAX == 2147483647
INT32_MIN == -INT32_MAX - 1

\* the addresses a caller hands in as a, b and result (they may coincide)
Cells == 1 .. 3
\* the numeric_data_t values a caller hands in
Types == {-1, NUMERIC_FLOAT32, NUMERIC_INT32, NUMERIC_TYPES}
\* the values a caller stores in the cells
ScalarFloats == {Fl(-1), Fl(0), Fl(2), <<5, 2>>}
ScalarInts == {INT32_MIN, -1, 0, 2, INT32_MAX}

\* the sum, difference or product of two int32_t is not an int32_t
add_overflows(x, y) ==
    \/ x > 0 /\ y > 0 /\ x > INT32_MAX - y
    \/ x < 0 /\ y < 0 /\ x < INT32_MIN - y
sub_overflows(x, y) ==
    IF y = INT32_MIN THEN x >= 0 ELSE add_overflows(x, -y)

\* two's complement arithmetic on 32 bits: the result modulo 2^32
wadd(x, y) ==
    IF x > 0 /\ y > 0 /\ x > INT32_MAX - y
    THEN (x + INT32_MIN) + (y + INT32_MIN)
    ELSE IF x < 0 /\ y < 0 /\ x < INT32_MIN - y
    THEN ((x + INT32_MAX) + 1) + ((y + INT32_MAX) + 1)
    ELSE x + y
wneg(y) == IF y = INT32_MIN THEN INT32_MIN ELSE -y
wsub(x, y) == wadd(x, wneg(y))
RECURSIVE wmul_nat(_, _)
wmul_nat(x, n) ==
    IF n = 0 THEN 0
    ELSE wadd(IF n % 2 = 1 THEN x ELSE 0, wmul_nat(wadd(x, x), n \div 2))
wmul(x, y) ==
    IF y >= 0 THEN wmul_nat(x, y)
    ELSE IF y = INT32_MIN THEN (IF x % 2 = 1 THEN INT32_MIN ELSE 0)
    ELSE wneg(wmul_nat(x, -y))

\* x / y of C, rounded towards zero; y is neither 0 nor is x / y INT32_MIN / -1
tdiv_pos(x, y) ==
    IF x >= 0 \/ x % y = 0 THEN x \div y ELSE (x \div y) + 1
tdiv(x, y) ==
    IF y > 0 THEN tdiv_pos(x, y)
    ELSE IF y = INT32_MIN THEN (IF x = INT32_MIN THEN 1 ELSE 0)
    ELSE -tdiv_pos(x, -y)
div_overflows(x, y) == x = INT32_MIN /\ y = -1
mul_overflows(x, y) ==
    IF x = 0 \/ y = 0 THEN FALSE
    ELSE IF y = -1 THEN x = INT32_MIN
    ELSE IF x = -1 THEN y = INT32_MIN
    ELSE tdiv(wmul(x, y), y) # x

\* what a build makes of signed overflow, which the language leaves undefined:
\* the two's complement result, or a trap that ends the process (the idiv of
\* x86 for INT32_MIN / -1, -ftrapv for the others)
Overflows == {"wrap", "trap"}

Stored(mem, result, x) ==
    [mem |-> [mem EXCEPT ![result] = x], ret |-> result, fault |-> FALSE]
Refused(mem) == [mem |-> mem, ret |-> NULL, fault |-> FALSE]
Trapped(mem) == [mem |-> mem, ret |-> NULL, fault |-> TRUE]

\* *(float*) result = (*(float*) a) + (*(float*) b); return result
scalar_add_float32(mem, a, b, result, ub) ==
    Stored(mem, result, scalar_add(mem[a], mem[b]))
scalar_subtract_float32(mem, a, b, result, ub) ==
    Stored(mem, result, scalar_subtract(mem[a], mem[b]))
scalar_multiply_float32(mem, a, b, result, ub) ==
    Stored(mem, result, scalar_multiply(mem[a], mem[b]))

\* a division that clears *result before it refuses a zero divisor
scalar_divide_float32_clears(mem, a, b, result, ub) ==
    IF mem[b] = Fl(0)
    THEN [mem |-> [mem EXCEPT ![result] = Fl(0)], ret |-> NULL,
          fault |-> FALSE]
    ELSE Stored(mem, result, fdiv(mem[a], mem[b]))

\* if (0.0f == *(float*) b) return NULL;
\* *(float*) result = (*(float*) a) / (*(float*) b); return result
scalar_divide_float32(mem, a, b, result, ub) ==
    IF mem[b] = Fl(0) THEN Refused(mem)
    ELSE Stored(mem, result, fdiv(mem[a], mem[b]))

\* *(int32_t*) result = (*(int32_t*) a) + (*(int32_t*) b); return result
scalar_add_int32(mem, a, b, result, ub) ==
    IF add_overflows(mem[a], mem[b]) /\ ub = "trap" THEN Trapped(mem)
    ELSE Stored(mem, result, wadd(mem[a], mem[b]))
scalar_subtract_int32(mem, a, b, result, ub) ==
    IF sub_overflows(mem[a], mem[b]) /\ ub = "trap" THEN Trapped(mem)
    ELSE Stored(mem, result, wsub(mem[a], mem[b]))
scalar_multiply_int32(mem, a, b, result, ub) ==
    IF mul_overflows(mem[a], mem[b]) /\ ub = "trap" THEN Trapped(mem)
    ELSE Stored(mem, result, wmul(mem[a], mem[b]))

\* if (0 == *(int*) b) return NULL;
\* *(int32_t*) result = (*(int32_t*) a) / (*(int32_t*) b); return result
scalar_divide_int32(mem, a, b, result, ub) ==
    IF mem[b] = 0 THEN Refused(mem)
    ELSE IF div_overflows(mem[a], mem[b])
    THEN IF ub = "trap" THEN Trapped(mem) ELSE Stored(mem, result, INT32_MIN)
    ELSE Stored(mem, result, tdiv(mem[a], mem[b]))

\* the function pointer arrays, indexed by type
ScalarOps == {"add", "subtract", "multiply", "divide"}
scalar_operations(op) ==
    <<op \o "_float32", op \o "_int32">>

\* scalar_operation_get(operations, type): operations[type], or no function
scalar_operation_get(operations, type) ==
    IF type >= 0 /\ type < NUMERIC_TYPES THEN operations[type + 1]
    ELSE "NULL"

\* the call through the function pointer
scalar_arithmetic(f, mem, a, b, result, ub) ==
    CASE f = "add_float32" -> scalar_add_float32(mem, a, b, result, ub)
      [] f = "add_int32" -> scalar_add_int32(mem, a, b, result, ub)
      [] f = "subtract_float32" ->
            scalar_subtract_float32(mem, a, b, result, ub)
      [] f = "subtract_int32" -> scalar_subtract_int32(mem, a, b, result, ub)
      [] f = "multiply_float32" ->
            scalar_multiply_float32(mem, a, b, result, ub)
      [] f = "multiply_int32" -> scalar_multiply_int32(mem, a, b, result, ub)
      [] f = "divide_float32" -> scalar_divide_float32(mem, a, b, result, ub)
      [] f = "divide_int32" -> scalar_divide_int32(mem, a, b, result, ub)

\* scalar_add / _subtract / _multiply / _divide (a, b, result, type):
\* op = scalar_operation_get(...); return op ? op(a, b, result) : NULL
scalar_operation(op, mem, a, b, result, type, ub) ==
    LET f == scalar_operation_get(scalar_operations(op), type)
    IN  IF f = "NULL" THEN Refused(mem)
        ELSE scalar_arithmetic(f, mem, a, b, result, ub)

\* no call of the scalar API
ScalarIdle ==
    /\ sc_pc = "idle"
    /\ sc_mem = [kind |-> "none", cell |-> <<>>]
    /\ sc_before = <<>>
    /\ sc_call = [op |-> "none", a |-> NULL, b |-> NULL, result |-> NULL,
                  type |-> 0]
    /\ sc_ret = NULL

\* a caller has stored its operands and is about to call the scalar API
ScalarReady ==
    /\ sc_pc = "ready"
    /\ \/ \E cell \in [Cells -> ScalarFloats] :
            sc_mem = [kind |-> "float", cell |-> cell]
       \/ \E cell \in [Cells -> ScalarInts] :
            sc_mem = [kind |-> "int", cell |-> cell]
    /\ sc_before = <<>>
    /\ sc_call = [op |-> "none", a |-> NULL, b |-> NULL, result |-> NULL,
                  type |-> 0]
    /\ sc_ret = NULL

\* the caller calls scalar_<op>(a, b, result, type); a type that selects a
\* function is the type of the values in the cells
scalar_call(op) ==
    /\ sc_pc = "ready"
    /\ \E a \in Cells, b \in Cells, result \in Cells, type \in Types,
          ub \in Overflows :
        /\ type = NUMERIC_FLOAT32 => sc_mem.kind = "float"
        /\ type = NUMERIC_INT32 => sc_mem.kind = "int"
        /\ LET r == scalar_operation(op, sc_mem.cell, a, b, result, type, ub)
           IN  /\ sc_mem' = [sc_mem EXCEPT !.cell = r.mem]
               /\ sc_ret' = r.ret
               /\ sc_pc' = IF r.fault THEN "fault" ELSE "returned"
        /\ sc_call' = [op |-> op, a |-> a, b |-> b, result |-> result,
                       type |-> type]
    /\ sc_before' = sc_mem.cell
    /\ UNCHANGED <<pool_vars, mt_vars, vec_vars, life_vars, matrix_vars>>

scalar_add_call == scalar_call("add")
scalar_subtract_call == scalar_call("subtract")
scalar_multiply_call == scalar_call("multiply")
scalar_divide_call == scalar_call("divide")

ScalarStep ==
    \/ scalar_add_call
    \/ scalar_subtract_call
    \/ scalar_multiply_call
    \/ scalar_divide_call

(***************************************************************************)
(* Part 6: the matrix API (src/matrix.c).  One matrix: its fields and its  *)
(* row-major data buffer.                                                  *)
(***************************************************************************)
\* largest rows and columns handed to matrix_create, and largest index handed
\* to the element functions
MaxRows == 2

MATRIX_NONE == 0
MATRIX_TRANSPOSED == 1

\* the element values a caller stores
MatrixValues == {Fl(0), Fl(1)}

\* what the memory malloc returns may hold where the state field comes to lie:
\* malloc does not clear it
Uninitialized == {MATRIX_NONE, MATRIX_TRANSPOSED, 2}

\* no matrix has been created
NoMatrix ==
    [exists |-> FALSE, rows |-> 0, columns |-> 0, data |-> <<>>,
     state |-> MATRIX_NONE]

\* the record of the last call: function, arguments, the bool or float it
\* returned, and whether it accessed memory outside the data buffer
MatrixCall(fn, row, column, ok, x, outside) ==
    [fn |-> fn, row |-> row, column |-> column, ok |-> ok, x |-> x,
     outside |-> outside]

\* matrix_create(rows, columns); mem says whether the allocator has memory to
\* give, garbage is what the struct's memory held.  The fields data (zeroed),
\* rows and columns are assigned; state is not
matrix_create(rows, columns, mem, garbage) ==
    IF ~mem THEN NoMatrix
    ELSE [exists |-> TRUE, rows |-> rows, columns |-> columns,
          data |-> [i \in 1 .. rows * columns |-> Fl(0)],
          state |-> garbage]

\* matrix_elements(matrix)
matrix_elements(m) == m.rows * m.columns

\* matrix_fill(matrix, value)
matrix_fill(m, value) ==
    [m EXCEPT !.data = [i \in 1 .. matrix_elements(m) |-> value]]

\* matrix_get_element(matrix, row, column)
matrix_get_element(m, row, column) ==
    IF row >= m.rows \/ column >= m.columns
    THEN [x |-> NaN, outside |-> FALSE]
    ELSE IF row * m.columns + column < Len(m.data)
    THEN [x |-> m.data[row * m.columns + column + 1], outside |-> FALSE]
    ELSE [x |-> NaN, outside |-> TRUE]

\* a bounds test that lets the first index past the end through
matrix_set_element_off_by_one(m, row, column, value) ==
    IF row > m.rows \/ column > m.columns
    THEN [m |-> m, ok |-> FALSE, outside |-> FALSE]
    ELSE IF row * m.columns + column < Len(m.data)
    THEN [m |-> [m EXCEPT !.data[row * m.columns + column + 1] = value],
          ok |-> TRUE, outside |-> FALSE]
    ELSE [m |-> m, ok |-> TRUE, outside |-> TRUE]

\* matrix_set_element(matrix, row, column, value)
matrix_set_element(m, row, column, value) ==
    IF row >= m.rows \/ column >= m.columns
    THEN [m |-> m, ok |-> FALSE, outside |-> FALSE]
    ELSE IF row * m.columns + column < Len(m.data)
    THEN [m |-> [m EXCEPT !.data[row * m.columns + column + 1] = value],
          ok |-> TRUE, outside |-> FALSE]
    ELSE [m |-> m, ok |-> TRUE, outside |-> TRUE]

\* matrix_is_transposed(matrix): matrix->state & MATRIX_TRANSPOSED, bit 0
matrix_is_transposed(m) ==
    (m.state \div MATRIX_TRANSPOSED) % 2 = 1

MatrixIdle ==
    /\ matrix = NoMatrix
    /\ mx_last = MatrixCall("none", 0, 0, FALSE, Fl(0), FALSE)

\* a caller calls matrix_create(rows, columns)
matrix_create_call ==
    /\ ~matrix.exists
    /\ \E rows \in 0 .. MaxRows, columns \in 0 .. MaxRows, mem \in BOOLEAN,
          garbage \in Uninitialized :
        /\ matrix' = matrix_create(rows, columns, mem, garbage)
        /\ mx_last' = MatrixCall("matrix_create", rows, columns, mem, Fl(0),
                                 FALSE)
    /\ UNCHANGED <<pool_vars, mt_vars, vec_vars, life_vars, scalar_vars>>

\* a caller calls matrix_fill(matrix, value)
matrix_fill_call ==
    /\ matrix.exists
    /\ \E value \in MatrixValues :
        /\ matrix' = matrix_fill(matrix, value)
        /\ mx_last' = MatrixCall("matrix_fill", 0, 0, FALSE, value, FALSE)
    /\ UNCHANGED <<pool_vars, mt_vars, vec_vars, life_vars, scalar_vars>>

\* a caller calls matrix_set_element(matrix, row, column, value)
matrix_set_element_call ==
    /\ matrix.exists
    /\ \E row \in 0 .. MaxRows, column \in 0 .. MaxRows,
          value \in MatrixValues :
        LET r == matrix_set_element(matrix, row, column, value)
        IN  /\ matrix' = r.m
            /\ mx_last' = MatrixCall("matrix_set_element", row, column, r.ok,
                                     value, r.outside)
    /\ UNCHANGED <<pool_vars, mt_vars, vec_vars, life_vars, scalar_vars>>

\* a caller calls matrix_get_element(matrix, row, column)
matrix_get_element_call ==
    /\ matrix.exists
    /\ \E row \in 0 .. MaxRows, column \in 0 .. MaxRows :
        LET r == matrix_get_element(matrix, row, column)
        IN  mx_last' = MatrixCall("matrix_get_element", row, column, FALSE,
                                  r.x, r.outside)
    /\ UNCHANGED matrix
    /\ UNCHANGED <<pool_vars, mt_vars, vec_vars, life_vars, scalar_vars>>

\* a caller calls matrix_is_transposed(matrix)
matrix_is_transposed_call ==
    /\ matrix.exists
    /\ mx_last' = MatrixCall("matrix_is_transposed", 0, 0,
                             matrix_is_transposed(matrix), Fl(0), FALSE)
    /\ UNCHANGED matrix
    /\ UNCHANGED <<pool_vars, mt_vars, vec_vars, life_vars, scalar_vars>>

MatrixStep ==
    \/ matrix_create_call
    \/ matrix_fill_call
    \/ matrix_set_element_call
    \/ matrix_get_element_call
    \/ matrix_is_transposed_call

MoreIdle == LifeInit /\ ScalarIdle /\ MatrixIdle

(***************************************************************************)
(* The specifications.                                                     *)
(***************************************************************************)
vars == <<pool_vars, mt_vars, vec_vars, more_vars>>

\* the thread pool, from thread_pool_create on
InitPool == thread_pool_create /\ ClientsInit /\ MTIdle /\ VecInit /\ MoreIdle
NextPool == PoolStep
SpecPool == InitPool /\ [][NextPool]_vars

\* one call of vector_vector_add_mt, for every input within the bounds
InitMT == thread_pool_create /\ ClientsInit /\ MTCall /\ VecInit /\ MoreIdle
NextMT == MTStep
SpecMT == InitMT /\ [][NextMT]_vars

\* creation, copies and element stores, from an empty heap
InitVec == thread_pool_create /\ ClientsInit /\ MTIdle /\ VecInit /\ MoreIdle
NextVec == VecStep
SpecVec == InitVec /\ [][NextVec]_vars

\* the operations on two vectors, for every pair of operands within the bounds
InitVecOps == thread_pool_create /\ ClientsInit /\ MTIdle /\ VecOperands /\ MoreIdle
NextVecOps == VecOpsStep
SpecVecOps == InitVecOps /\ [][NextVecOps]_vars

\* create, shallow copy and free, from an empty heap
InitFree == thread_pool_create /\ ClientsInit /\ MTIdle /\ VecInit /\ MoreIdle
NextFree == FreeStep
SpecFree == InitFree /\ [][NextFree]_vars

\* one call of a function with an inplace flag, for every vector within the
\* bounds
InitInplace ==
    thread_pool_create /\ ClientsInit /\ MTIdle /\ VecOperands /\ MoreIdle
NextInplace == InplaceStep
SpecInplace == InitInplace /\ [][NextInplace]_vars

\* one call of the scalar API, for every memory within the value sets
InitScalar ==
    /\ thread_pool_create /\ ClientsInit /\ MTIdle /\ VecInit
    /\ LifeInit /\ ScalarReady /\ MatrixIdle
NextScalar == ScalarStep
SpecScalar == InitScalar /\ [][NextScalar]_vars

\* one matrix, from before matrix_create on
InitMatrix ==
    /\ thread_pool_create /\ ClientsInit /\ MTIdle /\ VecInit
    /\ LifeInit /\ ScalarIdle /\ MatrixIdle
NextMatrix == MatrixStep
SpecMatrix == InitMatrix /\ [][NextMatrix]_vars

(***************************************************************************)
(* C1: whenever thread_pool_wait returns on a live pool, every task whose  *)
(* submit returned before the call has finished executing its operation.   *)
(***************************************************************************)
C1_WaitReturnsAfterTasksFinished ==
    \A c \in Clients :
        (cpc[c] = "wait_returned" /\ ~free_called)
            => \A t \in wait_snapshot[c] : performed[t] >= 1

(***************************************************************************)
(* C2: the task queue is bounded, task_count <= queue_size in every        *)
(* reachable state.                                                        *)
(***************************************************************************)
C2_QueueBounded == task_count <= queue_size

\* no task is waiting in the queue or being performed
Quiescent ==
    /\ task_count = 0
    /\ \A w \in Workers : wpc[w] # "run"

(***************************************************************************)
(* C3: as long as thread_pool_free has not been called, no submitted task  *)
(* is performed twice, and once the queue is drained and the workers are   *)
(* idle every submitted task has been performed exactly once.              *)
(***************************************************************************)
C3_EachTaskExactlyOnce ==
    ~free_called =>
        /\ \A t \in TaskIds : performed[t] <= 1
        /\ Quiescent => \A t \in submitted : performed[t] = 1

(***************************************************************************)
(* C4: once vector_vector_add_mt has joined all its threads, the result    *)
(* holds a[i] + b[i] at every index i < columns: the data that the loop of *)
(* vector_vector_add (vector_vector_elementwise_operation with scalar_add) *)
(* computes for the same a and b.                                          *)
(***************************************************************************)
C4_MTAddEqualsSequential ==
    mt_pc = "return" =>
        /\ Len(mt_result) = Len(mt_a)
        /\ \A i \in 1 .. Len(mt_a) : mt_result[i] = scalar_add(mt_a[i], mt_b[i])
        /\ mt_result = elementwise_data(mt_a, mt_b, "add")

\* two threads have added two vectors of three elements, none of the sums 0
C4_Witness ==
    /\ mt_pc = "return"
    /\ num_threads = 2
    /\ Len(mt_a) = 3
    /\ \A i \in 1 .. 3 : mt_result[i] # Fl(0)

\* the index range [begin, end) of thread t
ChunkRange(t) == thread_data[t].begin .. (thread_data[t].end - 1)

(***************************************************************************)
(* C5: the index ranges [begin, end) handed to the threads are pairwise    *)
(* disjoint and their union is [0, columns); no element of result is       *)
(* written by two threads, and on return every element has been written.   *)
(***************************************************************************)
C5_ChunksPartitionIndices ==
    /\ mt_pc \in {"join", "return"} =>
        /\ Len(thread_data) = num_threads
        /\ \A s, t \in 1 .. num_threads :
              s # t => ChunkRange(s) \cap ChunkRange(t) = {}
        /\ UNION {ChunkRange(t) : t \in 1 .. num_threads}
              = 0 .. (Len(mt_a) - 1)
    /\ \A i \in 1 .. Len(mt_writers) : Cardinality(mt_writers[i]) <= 1
    /\ mt_pc = "return" =>
          \A i \in 1 .. Len(mt_writers) : Cardinality(mt_writers[i]) = 1

\* columns is not a multiple of num_threads, and all threads have been joined
C5_Witness ==
    /\ mt_pc = "return"
    /\ num_threads = 2
    /\ Len(mt_a) = 3
    /\ mt_writers = <<{1}, {2}, {2}>>

\* the heap after the step
HeapNext == [vectors |-> vectors', buffers |-> buffers']

\* what each of the four functions stores at an index
Expected(op, x, y) ==
    CASE op = "add" -> scalar_add(x, y)
      [] op = "subtract" -> scalar_subtract(x, y)
      [] op = "multiply" -> scalar_multiply(x, y)
      [] op = "divide" -> scalar_divide(x, y)

\* the step leaves every vector and buffer that existed before it as it was
HeapKept ==
    /\ \A v \in DOMAIN vectors : v \in DOMAIN vectors' /\ vectors'[v] = vectors[v]
    /\ \A d \in DOMAIN buffers : d \in DOMAIN buffers' /\ buffers'[d] = buffers[d]

(***************************************************************************)
(* C6: for a and b of equal dimension n, a call of vector_vector_add /     *)
(* _subtract / _multiply / _divide that returns a vector returns a newly   *)
(* created one, of dimension n, with c[i] = op(a[i], b[i]) for every       *)
(* i < n, and leaves a and b (and every other vector) unchanged.           *)
(***************************************************************************)
C6_ElementwiseResult ==
    [][(/\ last'.fn = "vector_vector"
        /\ vectors[last'.a].columns = vectors[last'.b].columns
        /\ last'.ret # NULL)
       => LET a == last'.a
              b == last'.b
              c == last'.ret
              n == vectors[a].columns
          IN  /\ c \notin DOMAIN vectors
              /\ c \in DOMAIN vectors'
              /\ vectors'[c].data \notin DOMAIN buffers
              /\ vectors'[c].columns = n
              /\ Len(Data(HeapNext, c)) = n
              /\ \A i \in 0 .. (n - 1) :
                    Read(HeapNext, c, i)
                        = Expected(last'.op, Read(Heap, a, i), Read(Heap, b, i))
              /\ HeapKept]_vars

\* a subtraction of two different vectors of two elements has returned
C6_Witness ==
    /\ last.fn = "vector_vector"
    /\ last.op = "subtract"
    /\ last.ret # NULL
    /\ last.a # last.b
    /\ vectors[last.ret].columns = 2
    /\ Data(Heap, last.ret) = <<Fl(-1), Fl(2)>>

C8_CreateZeroed ==
    (last.fn = "vector_create" /\ last.ret # NULL) =>
        /\ last.ret \in DOMAIN vectors
        /\ vectors[last.ret].columns = last.n
        /\ Len(Data(Heap, last.ret)) = last.n
        /\ \A i \in 0 .. (last.n - 1) : Read(Heap, last.ret, i) = Fl(0)

\* vector_create(MaxDim) has just returned a vector
C8_Witness ==
    /\ last.fn = "vector_create"
    /\ last.ret # NULL
    /\ last.n = MaxDim

(***************************************************************************)
(* C9: a vector that vector_deep_copy returns has the dimension and the    *)
(* element values of its input and a buffer of its own: a later store      *)
(* into the original leaves the copy unchanged, and a store into the copy  *)
(* leaves the original unchanged.                                          *)
(***************************************************************************)
C9_DeepCopyIndependent ==
    [][/\ (last'.fn = "vector_deep_copy" /\ last'.ret # NULL) =>
            /\ last'.ret \notin DOMAIN vectors
            /\ vectors'[last'.ret].columns = vectors[last'.a].columns
            /\ Data(HeapNext, last'.ret) = Data(Heap, last'.a)
            /\ vectors'[last'.ret].data # vectors'[last'.a].data
            /\ HeapKept
       /\ \A p \in copies :
            (p[1] = "deep" /\ last'.fn = "write") =>
                /\ last'.a = p[2] => Data(HeapNext, p[3]) = Data(Heap, p[3])
                /\ last'.a = p[3] => Data(HeapNext, p[2]) = Data(Heap, p[2])
      ]_vars

\* the original of a deep copy has been stored into and now differs from it
C9_Witness ==
    /\ last.fn = "write"
    /\ \E p \in copies :
          /\ p[1] = "deep"
          /\ last.a = p[2]
          /\ Data(Heap, p[2]) # Data(Heap, p[3])

(***************************************************************************)
(* C10: a vector that vector_shallow_copy returns is a struct of its own   *)
(* with the dimension of its input and the same buffer: after any stores   *)
(* through either vector, both read the same value at every index.         *)
(***************************************************************************)
C10_ShallowCopyShares ==
    \A p \in copies :
        p[1] = "shallow" =>
            /\ p[2] # p[3]
            /\ vectors[p[3]].columns = vectors[p[2]].columns
            /\ \A i \in 0 .. (vectors[p[2]].columns - 1) :
                  Read(Heap, p[3], i) = Read(Heap, p[2], i)

\* a store through a shallow copy is read through the original
C10_Witness ==
    /\ last.fn = "write"
    /\ \E p \in copies :
          /\ p[1] = "shallow"
          /\ last.a = p[3]
          /\ vectors[p[2]].columns >= 1
          /\ Read(Heap, p[2], 0) # Fl(0)

\* the vectors whose data field is buffer b
Sharers(b) == {v \in DOMAIN vectors : vectors[v].data = b}

(***************************************************************************)
(* C11: vector_free always releases the buffer its vector points to.  In   *)
(* any sequence of create / shallow copy / free calls, once vector_free    *)
(* has been called on an original and on a shallow copy of it their buffer *)
(* has been released twice (a double free), and a buffer has been released *)
(* exactly once exactly when vector_free has been called on exactly one of *)
(* the vectors that share it.                                              *)
(***************************************************************************)
C11_SharedBufferFreedPerVector ==
    /\ \A c \in copies :
        (c[1] = "shallow" /\ c[2] \in freed /\ c[3] \in freed)
            => released[vectors[c[2]].data] >= 2
    /\ \A b \in DOMAIN buffers :
        released[b] = 1 <=> Cardinality(Sharers(b) \cap freed) = 1

\* an original and its shallow copy have both been freed
C11_Witness ==
    \E c \in copies :
        /\ c[1] = "shallow"
        /\ c[2] \in freed
        /\ c[3] \in freed
        /\ released[vectors[c[2]].data] = 2

\* the step is the call of vector_normalize, vector_scale or vector_clip
InplaceCalled ==
    /\ last.fn = "none"
    /\ last'.fn \in {"vector_normalize", "vector_scale", "vector_clip"}

\* what the inplace flag selects, for the calls that return
InplaceFrame ==
    /\ (last'.op = "copy" /\ last'.a # NULL /\ ~crashed')
        => /\ Data(HeapNext, last'.a) = Data(Heap, last'.a)
           /\ last'.ret # NULL
                => last'.ret # last'.a /\ last'.ret \notin DOMAIN vectors
    /\ (last'.op = "inplace" /\ ~crashed')
        => /\ last'.ret # NULL => last'.ret = last'.a
           /\ vectors' = vectors
           /\ DOMAIN buffers' = DOMAIN buffers
    /\ (last'.ret = NULL /\ ~crashed') => HeapNext = Heap

(***************************************************************************)
(* C12: the inplace flag of vector_normalize, vector_scale and vector_clip *)
(* selects whether the input is modified: with inplace = false the input's *)
(* elements are unchanged and a returned vector is a different, new        *)
(* object; with inplace = true a returned pointer is the input and no      *)
(* vector is created; a call that returns NULL leaves the input unchanged; *)
(* and a call with a NULL input is one of the calls that return NULL.      *)
(***************************************************************************)
C12_InplaceFlag ==
    [][InplaceCalled =>
        /\ InplaceFrame
        /\ last'.a = NULL => (~crashed' /\ last'.ret = NULL)]_vars

\* the inplace flag selects as C12 says in every call that returns
C12_ReturningCalls == [][InplaceCalled => InplaceFrame]_vars

\* the call of the scalar API is over: it has returned, or the process is dead
ScalarDone == sc_pc \in {"returned", "fault"}

\* the type selects one of the two implementations
TypeSupported == sc_call.type \in {NUMERIC_FLOAT32, NUMERIC_INT32}

\* the operands the call was given
OperandValue(p) == sc_before[p]
ZeroDivisor ==
    IF sc_mem.kind = "float" THEN OperandValue(sc_call.b) = Fl(0)
    ELSE OperandValue(sc_call.b) = 0

\* op(x, y) in the selected type: float arithmetic, or int32_t arithmetic
\* modulo 2^32
ExpectedScalar(op, x, y) ==
    IF sc_mem.kind = "float"
    THEN CASE op = "add" -> scalar_add(x, y)
           [] op = "subtract" -> scalar_subtract(x, y)
           [] op = "multiply" -> scalar_multiply(x, y)
           [] op = "divide" -> fdiv(x, y)
    ELSE CASE op = "add" -> wadd(x, y)
           [] op = "subtract" -> wsub(x, y)
           [] op = "multiply" -> wmul(x, y)
           [] op = "divide" ->
                IF div_overflows(x, y) THEN INT32_MIN ELSE tdiv(x, y)

\* the call returned result, the result cell holds a op b and every other
\* cell holds what it held
ScalarResultStored ==
    /\ sc_pc = "returned"
    /\ sc_ret = sc_call.result
    /\ sc_mem.cell[sc_call.result] =
            ExpectedScalar(sc_call.op, OperandValue(sc_call.a),
                           OperandValue(sc_call.b))
    /\ \A c \in Cells \ {sc_call.result} : sc_mem.cell[c] = sc_before[c]

\* the mathematical result of the call is not an int32_t
ScalarOverflows ==
    /\ sc_mem.kind = "int"
    /\ LET x == OperandValue(sc_call.a)
           y == OperandValue(sc_call.b)
       IN  CASE sc_call.op = "add" -> add_overflows(x, y)
             [] sc_call.op = "subtract" -> sub_overflows(x, y)
             [] sc_call.op = "multiply" -> mul_overflows(x, y)
             [] sc_call.op = "divide" -> div_overflows(x, y)

(***************************************************************************)
(* C13: for type NUMERIC_FLOAT32 or NUMERIC_INT32, and a non-zero divisor  *)
(* in a division, scalar_add / _subtract / _multiply / _divide store the   *)
(* value of a op b, computed in the selected type, into the result cell,   *)
(* return the result pointer and leave the operands unchanged.             *)
(***************************************************************************)
C13_ScalarOperationResult ==
    (ScalarDone /\ TypeSupported /\ ~(sc_call.op = "divide" /\ ZeroDivisor))
        => ScalarResultStored

\* C13 holds of every call whose result is representable in the type
C13_RepresentableResults ==
    (ScalarDone /\ TypeSupported /\ ~(sc_call.op = "divide" /\ ZeroDivisor)
        /\ ~ScalarOverflows)
        => ScalarResultStored

(***************************************************************************)
(* C14: scalar_divide with a zero divisor (float32 or int32), and each of  *)
(* the four functions with a type outside NUMERIC_FLOAT32 / NUMERIC_INT32, *)
(* return NULL and leave the result cell, like every other cell, as it was *)
(* before the call.                                                        *)
(***************************************************************************)
C14_ScalarErrorsReturnNull ==
    (ScalarDone
        /\ \/ ~TypeSupported
           \/ sc_call.op = "divide" /\ ZeroDivisor)
        => /\ sc_pc = "returned"
           /\ sc_ret = NULL
           /\ sc_mem.cell = sc_before

\* a float division by zero has returned, with a result cell that was not 0
C14_Witness ==
    /\ sc_pc = "returned"
    /\ sc_call.op = "divide"
    /\ sc_call.type = NUMERIC_FLOAT32
    /\ ZeroDivisor
    /\ sc_before[sc_call.result] = Fl(2)
    /\ sc_call.result # sc_call.b

(***************************************************************************)
(* C15: a matrix is in the default state MATRIX_NONE from a successful     *)
(* matrix_create on: after it and after any sequence of matrix_fill and    *)
(* matrix_set_element calls, matrix_is_transposed returns false.           *)
(***************************************************************************)
C15_NotTransposedByDefault ==
    (matrix.exists /\ mx_last.fn = "matrix_is_transposed")
        => mx_last.ok = FALSE

\* the step is a call of fn with an index outside the matrix
OutOfBoundsCall(fn) ==
    /\ mx_last'.fn = fn
    /\ mx_last'.row >= matrix.rows \/ mx_last'.column >= matrix.columns

(***************************************************************************)
(* C16: for row >= rows or column >= columns, matrix_set_element returns   *)
(* false and leaves the matrix, every element included, unchanged, and     *)
(* matrix_get_element returns NaN; neither accesses memory outside the     *)
(* data buffer.                                                            *)
(***************************************************************************)
C16_OutOfBoundsRejected ==
    [][/\ OutOfBoundsCall("matrix_set_element")
            => /\ mx_last'.ok = FALSE
               /\ matrix' = matrix
               /\ ~mx_last'.outside
       /\ OutOfBoundsCall("matrix_get_element")
            => /\ IsNaN(mx_last'.x)
               /\ matrix' = matrix
               /\ ~mx_last'.outside]_vars

\* a store at column = columns of a 2 x 2 matrix of ones has been refused
C16_Witness ==
    /\ matrix.exists
    /\ matrix.rows = 2
    /\ matrix.columns = 2
    /\ mx_last.fn = "matrix_set_element"
    /\ mx_last.row = 0
    /\ mx_last.column = 2
    /\ mx_last.x = Fl(0)
    /\ mx_last.ok = FALSE
    /\ \A i \in 1 .. 4 : matrix.data[i] = Fl(1)

====
